---- MODULE Spec2Model ----
(***************************************************************************)
(* Model of VisualPIC/DataReading/rawDataReaders.py: one raw-data reader   *)
(* (RawDataReaderBase) parameterised by one of the three backend adapters  *)
(* (OsirisRawDataReader, HiPACERawDataReader, OpenPMDRawDataReader), the   *)
(* read-only dataset it reads, and a call-counting record of the last two  *)
(* public calls.                                                           *)
(***************************************************************************)
EXTENDS Integers, Sequences, FiniteSets, TLC

(* ------------------------------ bounds -------------------------------- *)

\* Timesteps a caller may request are 0..MaxTimeStep.
MaxTimeStep == 1

\* Public calls are issued while at most MaxHandles file handles are left
\* open by failed reads (caps the handle counter).
MaxHandles == 1

\* Tag components of the injectivity domain are 0..MaxTag.
MaxTag == 5

(* ------------------------- Python values ------------------------------ *)

\* None
PyNone == [tag |-> "None", v |-> << >>]

\* a scalar number
PyNum(x) == [tag |-> "num", v |-> <<x>>]

\* a numpy array of numbers
PyArr(s) == [tag |-> "array", v |-> s]

\* np.array(None): what np.array(file_content.get(name)) yields when the
\* file has no dataset of that name (h5py's get returns None)
PyObjArr == [tag |-> "objarray", v |-> << >>]

(* ----------------------------- dataset -------------------------------- *)

TimeSteps == 0..MaxTimeStep

Kinds == {"Osiris", "HiPACE", "OpenPMD"}

\* Field names a reader may be built for.
Names == {"x1", "q", "tag"}

\* State of the on-disk record of one timestep.
\*   "missing" no file/iteration; "ok" complete; "noTime" the TIME
\*   attribute is absent; "noField" the requested dataset is absent.
Status == {"missing", "ok", "noTime", "noField"}

\* Stored UNITS attribute values (byte strings, one character per element).
UnitBytes == { << >>, <<"\\", "w">> }

\* Stored TIME UNITS attribute value.
TimeUnitBytes == <<"1", "/", "\\", "w">>

\* TIME attribute of the record of timestep t.
TimeOf(t) == 5 * (t + 1)

\* Raw stored dataset of a scalar field at timestep t.
RawField(name, t) == IF name = "q" THEN <<-(t + 1), -(t + 1)>>
                     ELSE <<10 * t + 1, 10 * t - 2>>

\* Raw stored two-column tag dataset at timestep t.
RawTags(t) == << <<3, 5>>, <<t, 1>>, <<0, 0>>, <<5, 3>> >>

\* NX, XMAX and XMIN attributes of the record of timestep t.
NXOf(t) == <<t + 2, 4>>

XMaxOf(t) == <<t + 10, 8>>

XMinOf(t) == <<t - 1, 3>>

VARIABLES
    kind,             \* which adapter class the reader is
    dataName,         \* descriptor: public name
    internalName,     \* descriptor: on-disk name
    firstTimeStep,    \* descriptor: bootstrap timestep
    disk,             \* [TimeSteps -> Status], read-only
    unitsAttr,        \* stored UNITS attribute of the field (Code-A)
    ctor,             \* construction: phase ("new", "ready", "failed"),
                      \* openpmd_installed, whether openpmd_ts was built,
                      \* files opened, the internalName argument
    grid,             \* geometry snapshot and how often it was written
    currentTimeStep,  \* cache: timestep last requested
    currentTime,      \* cache: simulation time
    data,             \* cache: array
    dataUnits,        \* lazily resolved units ("" = << >>)
    timeUnits,
    openHandles,      \* file handles opened and not closed
    dataSrc,          \* timestep whose record self.data was read from
    timeSrc,          \* timestep whose record self.currentTime was read from
    last,             \* record of the most recent public call
    prev              \* record of the call before it

vars == <<kind, dataName, internalName, firstTimeStep, disk, unitsAttr,
          ctor, grid,
          currentTimeStep, currentTime, data, dataUnits, timeUnits,
          openHandles, dataSrc, timeSrc, last, prev>>

descriptor == <<kind, dataName, internalName, firstTimeStep, disk, unitsAttr>>

construction == <<ctor, grid>>

(* ------------------- DataReader (base attribute slots) ---------------- *)

\* currentTimeStep before any read: the "none" sentinel.
NoTimeStep == -1

\* dataUnits / timeUnits before resolution: the empty string.
EmptyStr == << >>

(* ------------------------- adapter helpers ---------------------------- *)

\* Result of one adapter call.
\*   ok: returned normally; val: returned value; setTime/time: whether and
\*   to what self.currentTime was assigned; opens: record open/lookup
\*   attempts; leak: handles opened and not closed.
Res(ok, val, setTime, time, opens, leak) ==
    [ok |-> ok, val |-> val, setTime |-> setTime, time |-> time,
     opens |-> opens, leak |-> leak]

\* Variant of Cantor: 1/2 taken as an integer division (0).
CantorIntDiv(a, b) == 0 * (a + b) * (a + b + 1) + b

\* 1/2*(a+b)*(a+b+1)+b
Cantor(a, b) == ((a + b) * (a + b + 1)) \div 2 + b

\* data = 1/2*(a+b)*(a+b+1)+b over the two columns of tags
CantorArr(tags) == [i \in 1..Len(tags) |-> Cantor(tags[i][1], tags[i][2])]

\* Variant of Shift: the time is not added.
ShiftNone(arr, T) == arr

\* data += self.currentTime
Shift(arr, T) == [i \in 1..Len(arr) |-> arr[i] + T]

\* Value held by the dataset self.internalName of record t (Code-A/B):
\* the Cantor ids for "tag", np.array(None) when the dataset is absent.
FieldValue(t) ==
    IF internalName = "tag" THEN PyArr(CantorArr(RawTags(t)))
    ELSE IF disk[t] = "noField" THEN PyObjArr
    ELSE PyArr(RawField(internalName, t))

\* H5File(file_path, 'r') succeeds iff the file of timestep t exists.
OpenFileOk(t) == disk[t] # "missing"

\* file_content.attrs["TIME"][0] succeeds iff the attribute is stored.
TimeAttrOk(t) == disk[t] # "noTime"

\* tags[:,0] succeeds iff the tag dataset is stored.
TagsOk(t) == disk[t] # "noField"

(* ------------------------ OsirisRawDataReader ------------------------- *)

OsirisReadData(t) ==
    IF ~OpenFileOk(t) THEN Res(FALSE, PyNone, FALSE, PyNone, 1, 0)
    ELSE IF internalName = "tag" /\ ~TagsOk(t)
         THEN Res(FALSE, PyNone, FALSE, PyNone, 1, 1)
    ELSE IF ~TimeAttrOk(t) THEN Res(FALSE, PyNone, FALSE, PyNone, 1, 1)
    ELSE Res(TRUE, FieldValue(t), TRUE, PyNum(TimeOf(t)), 1, 0)

OsirisReadTime(t) ==
    IF ~OpenFileOk(t) THEN Res(FALSE, PyNone, FALSE, PyNone, 1, 0)
    ELSE IF ~TimeAttrOk(t) THEN Res(FALSE, PyNone, FALSE, PyNone, 1, 1)
    ELSE Res(TRUE, PyNone, TRUE, PyNum(TimeOf(t)), 1, 0)

\* repr of a byte string without its b'..' frame: backslashes are doubled.
RECURSIVE Escape(_)
Escape(bs) ==
    IF bs = << >> THEN << >>
    ELSE (IF Head(bs) = "\\" THEN <<"\\", "\\">> ELSE <<Head(bs)>>)
         \o Escape(Tail(bs))

\* str(x) of a byte string x: b'...'
StrOfBytes(bs) == <<"b", "'">> \o Escape(bs) \o <<"'">>

\* s[2:-1]
Slice2m1(s) == SubSeq(s, 3, Len(s) - 1)

\* s.replace("\\\\", "\\")
RECURSIVE ReplaceDoubled(_)
ReplaceDoubled(s) ==
    IF s = << >> THEN << >>
    ELSE IF Len(s) >= 2 /\ s[1] = "\\" /\ s[2] = "\\"
         THEN <<"\\">> \o ReplaceDoubled(SubSeq(s, 3, Len(s)))
    ELSE <<Head(s)>> \o ReplaceDoubled(Tail(s))

\* str(attr)[2:-1].replace("\\\\","\\")
DecodeUnits(bs) == ReplaceDoubled(Slice2m1(StrOfBytes(bs)))

\* Result of one _ReadUnits call: the values dataUnits and timeUnits
\* hold afterwards, and the timestep of the file it opened (NoTimeStep
\* when it opens none).
URes(ok, du, tu, opens, leak, file) ==
    [ok |-> ok, dataUnits |-> du, timeUnits |-> tu, opens |-> opens,
     leak |-> leak, file |-> file]

OsirisReadUnits ==
    IF ~OpenFileOk(firstTimeStep)
    THEN URes(FALSE, dataUnits, timeUnits, 1, 0, firstTimeStep)
    ELSE IF disk[firstTimeStep] = "noField"
         THEN URes(FALSE, dataUnits, timeUnits, 1, 1, firstTimeStep)
    ELSE URes(TRUE, DecodeUnits(unitsAttr), DecodeUnits(TimeUnitBytes), 1, 0,
              firstTimeStep)

(* ------------------------ HiPACERawDataReader ------------------------- *)

HiPACEReadData(t) ==
    IF ~OpenFileOk(t) THEN Res(FALSE, PyNone, FALSE, PyNone, 1, 0)
    ELSE IF internalName = "tag" /\ ~TagsOk(t)
         THEN Res(FALSE, PyNone, FALSE, PyNone, 1, 1)
    ELSE IF ~TimeAttrOk(t) THEN Res(FALSE, PyNone, FALSE, PyNone, 1, 1)
    ELSE IF internalName = "x1"
         THEN IF FieldValue(t).tag = "objarray"
              THEN Res(FALSE, PyNone, TRUE, PyNum(TimeOf(t)), 1, 1)
              ELSE Res(TRUE, PyArr(Shift(FieldValue(t).v, TimeOf(t))), TRUE,
                       PyNum(TimeOf(t)), 1, 0)
    ELSE Res(TRUE, FieldValue(t), TRUE, PyNum(TimeOf(t)), 1, 0)

HiPACEReadTime(t) ==
    IF ~OpenFileOk(t) THEN Res(FALSE, PyNone, FALSE, PyNone, 1, 0)
    ELSE IF ~TimeAttrOk(t) THEN Res(FALSE, PyNone, FALSE, PyNone, 1, 1)
    ELSE Res(TRUE, PyNone, TRUE, PyNum(TimeOf(t)), 1, 0)

HiPACEReadUnits ==
    URes(TRUE,
         IF dataName \in {"x1", "x2", "x3"} THEN <<"c/ ", "\\", "omega_p">>
         ELSE IF dataName \in {"p1", "p2", "p3"} THEN <<"m_e c">>
         ELSE IF dataName = "q" THEN <<"e">>
         ELSE <<"unknown">>,
         <<"1/ ", "\\", "omega_p">>, 0, 0, NoTimeStep)

(* ------------------------ OpenPMDRawDataReader ------------------------ *)

\* self.openpmd_ts._find_output(None, timeStep); currentTime = ts.t[i]
\* (the method returns nothing)
OpenPMDReadTime(t) ==
    IF disk[t] = "missing" THEN Res(FALSE, PyNone, FALSE, PyNone, 1, 0)
    ELSE Res(TRUE, PyNone, TRUE, PyNum(TimeOf(t)), 1, 0)

\* data, = ts.get_particle(...); self.currentTime = self._ReadTime(timeStep)
OpenPMDReadData(t) ==
    IF disk[t] \in {"missing", "noField"}
    THEN Res(FALSE, PyNone, FALSE, PyNone, 1, 0)
    ELSE Res(TRUE, PyArr(RawField(internalName, t)), TRUE,
             OpenPMDReadTime(t).val, 1 + OpenPMDReadTime(t).opens, 0)

OpenPMDReadUnits == URes(TRUE, <<"arb.u.">>, <<"s">>, 0, 0, NoTimeStep)

(* ------------------------- simulation geometry ----------------------- *)

\* The geometry attributes before _ReadSimulationProperties has run.
GridUnset ==
    [resolution |-> PyNone, size |-> PyNone, units |-> EmptyStr, writes |-> 0]

\* Variant of GridSize: the lower bound is not subtracted.
GridSizeMaxOnly(t) == XMaxOf(t)

\* np.array(attrs['XMAX']) - np.array(attrs['XMIN'])
GridSize(t) == [i \in 1..Len(XMaxOf(t)) |-> XMaxOf(t)[i] - XMinOf(t)[i]]

\* _ReadSimulationProperties on the open file of timestep t: the snapshot
\* it stores.
ReadSimulationProperties(t) ==
    IF kind = "OpenPMD"
    THEN [resolution |-> PyNone, size |-> PyNone, units |-> <<"m">>,
          writes |-> grid.writes + 1]
    ELSE [resolution |-> PyArr(NXOf(t)), size |-> PyArr(GridSize(t)),
          units |-> <<"c/ ", "\\", "omega_p">>, writes |-> grid.writes + 1]

\* _ReadBasicData: open the file of firstTimeStep, read the geometry, close.
ReadBasicData ==
    IF disk[firstTimeStep] = "missing"
    THEN [ok |-> FALSE, grid |-> grid, opens |-> 1]
    ELSE [ok |-> TRUE, grid |-> ReadSimulationProperties(firstTimeStep),
          opens |-> 1]

(* ------------------------- abstract dispatch -------------------------- *)

ReadData(t) ==
    CASE kind = "Osiris" -> OsirisReadData(t)
      [] kind = "HiPACE" -> HiPACEReadData(t)
      [] kind = "OpenPMD" -> OpenPMDReadData(t)

ReadTime(t) ==
    CASE kind = "Osiris" -> OsirisReadTime(t)
      [] kind = "HiPACE" -> HiPACEReadTime(t)
      [] kind = "OpenPMD" -> OpenPMDReadTime(t)

ReadUnits ==
    CASE kind = "Osiris" -> OsirisReadUnits
      [] kind = "HiPACE" -> HiPACEReadUnits
      [] kind = "OpenPMD" -> OpenPMDReadUnits

(* -------------------------- RawDataReaderBase ------------------------- *)

\* The cache triple.
Cache == [ts |-> currentTimeStep, time |-> currentTime, data |-> data]

\* Record of one public call: the operation and its argument, whether it
\* returned normally (ok) or raised, the value returned, how many adapter
\* calls of each kind and record opens it made, the cache triple and the
\* units before it, and the timestep of the file a units resolution opened.
Call(op, t, ok, ret, units, nData, nTime, nUnits, nOpen) ==
    [op |-> op, t |-> t, ok |-> ok, ret |-> ret, units |-> units,
     nData |-> nData, nTime |-> nTime, nUnits |-> nUnits, nOpen |-> nOpen,
     pre |-> Cache, preDataSrc |-> dataSrc,
     preUnits |-> <<dataUnits, timeUnits>>, file |-> NoTimeStep]

NoCall ==
    [op |-> "none", t |-> NoTimeStep, ok |-> TRUE, ret |-> PyNone,
     units |-> EmptyStr, nData |-> 0, nTime |-> 0, nUnits |-> 0, nOpen |-> 0,
     pre |-> [ts |-> NoTimeStep, time |-> PyNone, data |-> PyNone],
     preDataSrc |-> NoTimeStep, preUnits |-> <<EmptyStr, EmptyStr>>,
     file |-> NoTimeStep]

\* What is kept of the call before the last one.
Brief(c) ==
    [op |-> c.op, t |-> c.t, ok |-> c.ok, ret |-> c.ret, nUnits |-> c.nUnits,
     preTs |-> c.pre.ts, preDataSrc |-> c.preDataSrc]

\* Variant of GetTimeUnits: the units are resolved through the timestep
\* cache, which is left at the bootstrap timestep.
GetTimeUnitsViaCache ==
    /\ ctor.phase = "ready"
    /\ openHandles <= MaxHandles
    /\ dataUnits' = ReadUnits.dataUnits
    /\ timeUnits' = ReadUnits.timeUnits
    /\ currentTimeStep' = firstTimeStep
    /\ last' = [Call("GetTimeUnits", NoTimeStep, ReadUnits.ok, PyNone,
                     IF ReadUnits.ok THEN ReadUnits.timeUnits ELSE EmptyStr,
                     0, 0, 1, ReadUnits.opens) EXCEPT !.file = ReadUnits.file]
    /\ prev' = Brief(last)
    /\ UNCHANGED <<descriptor, construction, currentTime, data, dataSrc, timeSrc,
                   openHandles>>

\* Variant of GetDataMiss: the cache check dropped, every call extracts.
GetDataMissAlways(t) == TRUE

\* Variant of GetDataMiss: only an empty cache counts as a miss.
GetDataMissFirstOnly(t) == currentTimeStep = NoTimeStep

\* Variant of GetTimeMiss: the cache check dropped, every call extracts.
GetTimeMissAlways(t) == TRUE

\* if timeStep != self.currentTimeStep
GetDataMiss(t) == t # currentTimeStep

\* if timeStep != self.currentTimeStep
GetTimeMiss(t) == t # currentTimeStep

\* if self.dataUnits == ""
DataUnitsUnresolved == dataUnits = EmptyStr

\* if self.timeUnits == ""
TimeUnitsUnresolved == timeUnits = EmptyStr

\* self.internalName = dataName
BaseInternalName(dn, inArg) == dn

\* RawDataReaderBase.__init__: what it leaves of the construction state.
BaseInit(collab) ==
    [phase |-> IF ReadBasicData.ok THEN "ready" ELSE "failed",
     collab |-> collab, opens |-> ReadBasicData.opens,
     grid |-> ReadBasicData.grid,
     internalName |-> BaseInternalName(dataName, ctor.argInternalName)]

\* Variant of OpenPMDInit: the availability check runs after the base
\* initialisation.
OpenPMDInitCheckLast ==
    IF ~ctor.installed
    THEN [BaseInit(FALSE) EXCEPT !.phase = "failed"]
    ELSE BaseInit(TRUE)

\* OpenPMDRawDataReader.__init__
OpenPMDInit ==
    IF ~ctor.installed
    THEN [phase |-> "failed", collab |-> FALSE, opens |-> 0, grid |-> grid,
          internalName |-> internalName]
    ELSE BaseInit(TRUE)

\* Constructing the reader: OsirisRawDataReader.__init__ and
\* HiPACERawDataReader.__init__ only run the base initialisation.
Construct ==
    /\ ctor.phase = "new"
    /\ LET c == IF kind = "OpenPMD" THEN OpenPMDInit ELSE BaseInit(FALSE) IN
       /\ ctor' = [ctor EXCEPT !.phase = c.phase, !.collab = c.collab,
                               !.opens = c.opens]
       /\ grid' = c.grid
       /\ internalName' = c.internalName
    /\ UNCHANGED <<kind, dataName, firstTimeStep, disk, unitsAttr,
                   currentTimeStep, currentTime, data, dataUnits, timeUnits,
                   openHandles, dataSrc, timeSrc, last, prev>>

GetData(t) ==
    /\ ctor.phase = "ready"
    /\ openHandles <= MaxHandles
    /\ IF GetDataMiss(t)
       THEN LET r == ReadData(t) IN
            /\ currentTimeStep' = t
            /\ currentTime' = IF r.setTime THEN r.time ELSE currentTime
            /\ data' = IF r.ok THEN r.val ELSE data
            /\ dataSrc' = IF r.ok THEN t ELSE dataSrc
            /\ timeSrc' = IF ~r.setTime THEN timeSrc
                          ELSE IF r.time.tag = "None" THEN NoTimeStep ELSE t
            /\ openHandles' = openHandles + r.leak
            /\ last' = Call("GetData", t, r.ok, IF r.ok THEN r.val ELSE PyNone,
                            EmptyStr, 1, 0, 0, r.opens)
       ELSE /\ UNCHANGED <<currentTimeStep, currentTime, data, openHandles,
                           dataSrc, timeSrc>>
            /\ last' = Call("GetData", t, TRUE, data, EmptyStr, 0, 0, 0, 0)
    /\ prev' = Brief(last)
    /\ UNCHANGED <<descriptor, construction, dataUnits, timeUnits>>

GetTime(t) ==
    /\ ctor.phase = "ready"
    /\ openHandles <= MaxHandles
    /\ IF GetTimeMiss(t)
       THEN LET r == ReadTime(t) IN
            /\ currentTimeStep' = t
            /\ currentTime' = IF r.setTime THEN r.time ELSE currentTime
            /\ timeSrc' = IF r.setTime THEN t ELSE timeSrc
            /\ openHandles' = openHandles + r.leak
            /\ last' = Call("GetTime", t, r.ok,
                            IF r.ok THEN currentTime' ELSE PyNone,
                            EmptyStr, 0, 1, 0, r.opens)
       ELSE /\ UNCHANGED <<currentTimeStep, currentTime, openHandles, timeSrc>>
            /\ last' = Call("GetTime", t, TRUE, currentTime, EmptyStr,
                            0, 0, 0, 0)
    /\ prev' = Brief(last)
    /\ UNCHANGED <<descriptor, construction, data, dataSrc, dataUnits, timeUnits>>

GetDataUnits ==
    /\ ctor.phase = "ready"
    /\ openHandles <= MaxHandles
    /\ IF DataUnitsUnresolved
       THEN LET u == ReadUnits IN
            /\ dataUnits' = u.dataUnits
            /\ timeUnits' = u.timeUnits
            /\ openHandles' = openHandles + u.leak
            /\ last' = [Call("GetDataUnits", NoTimeStep, u.ok, PyNone,
                             IF u.ok THEN u.dataUnits ELSE EmptyStr,
                             0, 0, 1, u.opens) EXCEPT !.file = u.file]
       ELSE /\ UNCHANGED <<dataUnits, timeUnits, openHandles>>
            /\ last' = Call("GetDataUnits", NoTimeStep, TRUE, PyNone,
                            dataUnits, 0, 0, 0, 0)
    /\ prev' = Brief(last)
    /\ UNCHANGED <<descriptor, construction, currentTimeStep, currentTime, data, dataSrc,
                   timeSrc>>

GetTimeUnits ==
    /\ ctor.phase = "ready"
    /\ openHandles <= MaxHandles
    /\ IF TimeUnitsUnresolved
       THEN LET u == ReadUnits IN
            /\ dataUnits' = u.dataUnits
            /\ timeUnits' = u.timeUnits
            /\ openHandles' = openHandles + u.leak
            /\ last' = [Call("GetTimeUnits", NoTimeStep, u.ok, PyNone,
                             IF u.ok THEN u.timeUnits ELSE EmptyStr,
                             0, 0, 1, u.opens) EXCEPT !.file = u.file]
       ELSE /\ UNCHANGED <<dataUnits, timeUnits, openHandles>>
            /\ last' = Call("GetTimeUnits", NoTimeStep, TRUE, PyNone,
                            timeUnits, 0, 0, 0, 0)
    /\ prev' = Brief(last)
    /\ UNCHANGED <<descriptor, construction, currentTimeStep, currentTime, data, dataSrc,
                   timeSrc>>

(* --------------------------- specification ---------------------------- *)

\* Statuses a record may have for the adapter: the timeseries index keeps
\* the time of every iteration it lists.
StatusFor(k) == IF k = "OpenPMD" THEN Status \ {"noTime"} ELSE Status

\* Field names the adapter is built for: the timeseries format stores
\* particle ids natively, not as tag pairs; only Code-B treats "q" apart
\* from the other scalar fields.
NamesFor(k) ==
    CASE k = "Osiris" -> Names \ {"q"}
      [] k = "HiPACE" -> Names
      [] k = "OpenPMD" -> Names \ {"tag", "q"}

\* Stored UNITS attribute of a field: the tag ids are dimensionless, the
\* coordinates carry a unit.
UnitsAttrOf(name) == IF name = "tag" THEN << >> ELSE <<"\\", "w">>

\* The reader right after construction over any dataset whose bootstrap
\* record exists (construction fails otherwise).
Init ==
    /\ kind \in Kinds
    /\ dataName \in NamesFor(kind)
    /\ internalName = BaseInternalName(dataName, dataName)
    /\ firstTimeStep = 0
    /\ disk \in [TimeSteps -> StatusFor(kind)]
    /\ disk[firstTimeStep] # "missing"
    /\ unitsAttr \in (IF kind = "Osiris"
                      THEN UnitBytes \cap {UnitsAttrOf(dataName)}
                      ELSE {<< >>})
    /\ ctor = [phase |-> "ready", installed |-> TRUE,
               collab |-> (kind = "OpenPMD"), opens |-> 1,
               argInternalName |-> dataName]
    /\ grid = [resolution |-> IF kind = "OpenPMD" THEN PyNone
                              ELSE PyArr(NXOf(firstTimeStep)),
               size |-> IF kind = "OpenPMD" THEN PyNone
                        ELSE PyArr(GridSize(firstTimeStep)),
               units |-> IF kind = "OpenPMD" THEN <<"m">>
                         ELSE <<"c/ ", "\\", "omega_p">>,
               writes |-> 1]
    /\ currentTimeStep = NoTimeStep
    /\ currentTime = PyNone
    /\ data = PyNone
    /\ dataUnits = EmptyStr
    /\ timeUnits = EmptyStr
    /\ openHandles = 0
    /\ dataSrc = NoTimeStep
    /\ timeSrc = NoTimeStep
    /\ last = NoCall
    /\ prev = Brief(NoCall)

Next ==
    \/ \E t \in TimeSteps : GetData(t)
    \/ \E t \in TimeSteps : GetTime(t)
    \/ GetDataUnits
    \/ GetTimeUnits

Spec == Init /\ [][Next]_vars

\* internalName arguments a reader is constructed with.
ArgNames == Names \ {"q"}

\* Values of the openpmd_installed flag: only OpenPMDRawDataReader.__init__
\* reads it.
InstalledFor(k) == IF k = "OpenPMD" THEN BOOLEAN ELSE {TRUE}

\* The constructor's arguments and environment, before __init__ runs, over
\* datasets whose records are complete or absent.
CtorInit ==
    /\ kind \in Kinds
    /\ dataName \in NamesFor(kind)
    /\ \E inArg \in ArgNames, inst \in InstalledFor(kind) :
           /\ ctor = [phase |-> "new", installed |-> inst, collab |-> FALSE,
                      opens |-> 0, argInternalName |-> inArg]
           /\ internalName = inArg
    /\ firstTimeStep \in TimeSteps
    /\ disk \in [TimeSteps -> {"missing", "ok"}]
    /\ unitsAttr = <<"\\", "w">>
    /\ grid = GridUnset
    /\ currentTimeStep = NoTimeStep
    /\ currentTime = PyNone
    /\ data = PyNone
    /\ dataUnits = EmptyStr
    /\ timeUnits = EmptyStr
    /\ openHandles = 0
    /\ dataSrc = NoTimeStep
    /\ timeSrc = NoTimeStep
    /\ last = NoCall
    /\ prev = Brief(NoCall)

CtorNext ==
    \/ Construct
    \/ \E t \in TimeSteps : GetData(t)
    \/ \E t \in TimeSteps : GetTime(t)
    \/ GetDataUnits
    \/ GetTimeUnits

CtorSpec == CtorInit /\ [][CtorNext]_vars

(* ------------------------------ properties ---------------------------- *)

ReadOps == {"GetData", "GetTime"}

\* C1: after GetTime(t) for a t that differed from the cached timestep, the
\* next GetData(t) makes exactly one data extraction and returns the data
\* of t (whenever the record of t can be read).
C1_DataReadAfterTime ==
    (/\ prev.op = "GetTime" /\ prev.t # prev.preTs
     /\ last.op = "GetData" /\ last.t = prev.t)
    => /\ last.nData = 1
       /\ ReadData(last.t).ok
            => (last.ok /\ last.ret = ReadData(last.t).val)

\* C2: a GetData/GetTime call whose extraction fails raises to the caller
\* and leaves (currentTimeStep, currentTime, data) as before the call.
C2_FailureKeepsCache ==
    (last.op \in ReadOps /\ ~last.ok) => Cache = last.pre

\* C3: whenever currentTimeStep holds a timestep, the cached data and the
\* cached currentTime were both populated from the record of that timestep.
C3_CacheMatchesTimeStep ==
    currentTimeStep # NoTimeStep
    => (dataSrc = currentTimeStep /\ timeSrc = currentTimeStep)

\* C4: GetData(t) directly after a successful GetData(t) makes no adapter
\* extraction (and opens no record) and returns the same array.
C4_RepeatedGetDataIsCached ==
    (/\ prev.op = "GetData" /\ prev.ok
     /\ last.op = "GetData" /\ last.t = prev.t)
    => /\ last.nData = 0 /\ last.nTime = 0 /\ last.nOpen = 0
       /\ last.ok
       /\ last.ret = prev.ret
       /\ Cache = last.pre

\* C4 witness: a second GetData(t) has returned the array the first read.
C4_Witness ==
    /\ prev.op = "GetData" /\ prev.ok /\ prev.ret.tag = "array"
    /\ last.op = "GetData" /\ last.t = prev.t

\* C5: GetData(t1) directly after GetData(t2), t1 # t2, makes a fresh data
\* extraction for t1, and a value it returns is the data of t1 read from
\* the record of t1: in GetData(t1), GetData(t2), GetData(t1) the third
\* call never reuses an array of another timestep.
C5_OtherTimeStepReExtracts ==
    (/\ prev.op = "GetData" /\ last.op = "GetData" /\ last.t # prev.t)
    => /\ last.nData = 1
       /\ last.ok => /\ last.ret = ReadData(last.t).val
                     /\ data = last.ret
                     /\ dataSrc = last.t

\* C5 witness: the cache held the data of t1, GetData(t2) replaced it, and
\* GetData(t1) has returned again.
C5_Witness ==
    /\ prev.op = "GetData" /\ prev.ok /\ prev.t # last.t
    /\ prev.preTs = last.t /\ prev.preDataSrc = last.t
    /\ last.op = "GetData" /\ last.ok /\ last.ret.tag = "array"

\* C6: GetTime(t) right after a successful GetData(t) returns the value
\* GetTime(t) returns when it is the first call made for t.
C6_TimeSameInAnyOrder ==
    (/\ prev.op = "GetData" /\ prev.ok
     /\ last.op = "GetTime" /\ last.t = prev.t)
    => (last.ok /\ ReadTime(last.t).ok /\ last.ret = ReadTime(last.t).time)

\* C7: GetTime(t) never makes a data extraction; it makes one time
\* extraction (one record open) exactly when t differs from the cached
\* timestep, so after a successful GetData(t) or GetTime(t) it opens
\* nothing.
C7_GetTimeOpensOnlyOnMiss ==
    /\ last.op = "GetTime"
       => /\ last.nData = 0
          /\ last.nTime = (IF last.t # last.pre.ts THEN 1 ELSE 0)
          /\ last.nOpen = last.nTime
    /\ (/\ last.op = "GetTime" /\ prev.op \in ReadOps /\ prev.ok
        /\ prev.t = last.t)
       => (last.nTime = 0 /\ last.nOpen = 0 /\ last.ok)

\* C7 witness: GetTime(t) has returned right after a successful GetData(t).
C7_Witness ==
    /\ prev.op = "GetData" /\ prev.ok
    /\ last.op = "GetTime" /\ last.t = prev.t /\ last.nOpen = 0

\* C8: two consecutive GetDataUnits() calls, the first of which resolved
\* the units, make at most one units-resolution call.
C8_UnitsResolvedOnce ==
    (/\ prev.op = "GetDataUnits" /\ prev.ok /\ last.op = "GetDataUnits")
    => prev.nUnits + last.nUnits <= 1

\* C9: in the Code-A and Code-B adapters no read, failed or not, leaves a
\* file handle open when the call ends.
C9_NoHandleLeftOpen ==
    kind \in {"Osiris", "HiPACE"} => openHandles = 0

\* C10: every GetData(t)/GetTime(t) for a timestep without a record raises
\* to the caller after exactly one open attempt.
C10_MissingRecordAlwaysFails ==
    (last.op \in ReadOps /\ disk[last.t] = "missing")
    => (~last.ok /\ last.nOpen = 1)

\* The elements stored in the dataset of a field at timestep t, row by row.
RECURSIVE Flatten(_)
Flatten(rows) == IF rows = << >> THEN << >>
                 ELSE Head(rows) \o Flatten(Tail(rows))

StoredElements(name, t) ==
    IF name = "tag" THEN Flatten(RawTags(t)) ELSE RawField(name, t)

\* A GetData call of the Code-B adapter that extracted from a complete
\* record and returned.
HiPACEExtracted ==
    /\ kind = "HiPACE" /\ last.op = "GetData" /\ last.nData = 1 /\ last.ok
    /\ disk[last.t] = "ok"

C13_CantorIds ==
    (/\ kind \in {"Osiris", "HiPACE"} /\ internalName = "tag"
     /\ last.op = "GetData" /\ last.nData = 1 /\ last.ok)
    => /\ Len(last.ret.v) = Len(RawTags(last.t))
       /\ \A i \in 1..Len(last.ret.v) :
              2 * last.ret.v[i] =
                  (RawTags(last.t)[i][1] + RawTags(last.t)[i][2])
                  * (RawTags(last.t)[i][1] + RawTags(last.t)[i][2] + 1)
                  + 2 * RawTags(last.t)[i][2]
       /\ last.ret.v[1] = 41
       /\ last.ret.v[3] = 0
       /\ Cardinality({Cantor(a, b) : a \in 0..MaxTag, b \in 0..MaxTag})
              = (MaxTag + 1) * (MaxTag + 1)

\* C13 witness: the tag field has been extracted.
C13_Witness ==
    /\ kind \in {"Osiris", "HiPACE"} /\ internalName = "tag"
    /\ last.op = "GetData" /\ last.nData = 1 /\ last.ok
    /\ last.ret.tag = "array"

UnitOps == {"GetDataUnits", "GetTimeUnits"}

\* C15: after every public operation that returns normally no file handle
\* is open.
C15_NoHandleAfterNormalReturn ==
    last.ok => openHandles = 0

\* C17: GetDataUnits() followed by GetTimeUnits(), or the reverse, the
\* first having resolved, make at most one units-resolution call in total.
C17_OneResolutionForBoth ==
    (/\ prev.op \in UnitOps /\ prev.ok
     /\ last.op \in UnitOps /\ last.op # prev.op)
    => prev.nUnits + last.nUnits <= 1

\* C18: GetDataUnits()/GetTimeUnits() leave currentTimeStep, currentTime
\* and data as they were (Code-A opens only the bootstrap file), and
\* GetData(t)/GetTime(t) leave dataUnits and timeUnits as they were.
C18_UnitsAndCacheIndependent ==
    /\ last.op \in UnitOps
       => /\ Cache = last.pre
          /\ dataSrc = last.preDataSrc
          /\ last.nData = 0 /\ last.nTime = 0
          /\ last.nOpen > 0 => last.file = firstTimeStep
    /\ last.op \in ReadOps
       => /\ <<dataUnits, timeUnits>> = last.preUnits
          /\ last.nUnits = 0

\* C18 witness: with a timestep cached, a units call has resolved the
\* units and then a read has extracted.
C18_Witness ==
    /\ prev.op \in UnitOps /\ prev.nUnits = 1 /\ prev.ok
    /\ prev.preTs # NoTimeStep
    /\ last.op \in ReadOps /\ last.nData + last.nTime = 1 /\ last.ok
    /\ dataUnits # EmptyStr

\* C11: constructing the Timeseries-Index adapter without the collaborator
\* fails before the collaborator is built, before the geometry bootstrap
\* and before any file is opened, and the failed reader serves no call.
C11_FailFastWithoutCollaborator ==
    (kind = "OpenPMD" /\ ~ctor.installed /\ ctor.phase # "new")
    => /\ ctor.phase = "failed"
       /\ ~ctor.collab
       /\ ctor.opens = 0
       /\ grid = GridUnset
       /\ openHandles = 0
       /\ last.op = "none"

\* C11 witness: such a construction has failed.
C11_Witness ==
    kind = "OpenPMD" /\ ~ctor.installed /\ ctor.phase = "failed"

\* C14: a constructed reader keeps the internalName it was constructed
\* with, also when it differs from dataName.
C14_InternalNameKept ==
    ctor.phase = "ready" => internalName = ctor.argInternalName

\* C16: the geometry snapshot is written exactly once, by the constructor,
\* from the record of firstTimeStep; no public call runs before it is
\* written and none changes it.
C16_GeometryReadOnceAtConstruction ==
    /\ ctor.phase = "new" => grid = GridUnset
    /\ ctor.phase # "ready" => last.op = "none"
    /\ ctor.phase = "ready"
       => /\ grid.writes = 1
          /\ IF kind = "OpenPMD"
             THEN /\ grid.resolution = PyNone /\ grid.size = PyNone
                  /\ grid.units = <<"m">>
             ELSE /\ grid.resolution = PyArr(NXOf(firstTimeStep))
                  /\ Len(grid.size.v) = Len(XMaxOf(firstTimeStep))
                  /\ \A i \in 1..Len(grid.size.v) :
                         grid.size.v[i] = XMaxOf(firstTimeStep)[i]
                                          - XMinOf(firstTimeStep)[i]
                  /\ grid.units = <<"c/ ", "\\", "omega_p">>

\* C16 witness: after construction from a bootstrap record other than the
\* first one, a units call and a read at another timestep have returned.
C16_Witness ==
    /\ ctor.phase = "ready" /\ kind = "Osiris" /\ firstTimeStep # 0
    /\ prev.op \in UnitOps /\ prev.ok
    /\ last.op \in ReadOps /\ last.ok /\ last.t # firstTimeStep
    /\ last.nData + last.nTime = 1

====
